---- MODULE Spec2Model ----
(***************************************************************************)
(* Model of automatic_attachement_download.py: main()'s sequential loop    *)
(* over the e-mail accounts and the EmailDownloader methods it calls.      *)
(* The IMAP server, the filesystem and the e-mail parser are the           *)
(* environment: every call into them is one step whose outcome (normal     *)
(* return, imaplib.IMAP4.error, any other exception) is chosen             *)
(* nondeterministically.                                                   *)
(***************************************************************************)
EXTENDS Integers, Sequences, FiniteSets, TLC

(* ------------------------------ bounds --------------------------------- *)
NumAccounts == 2
MaxMsgs == 2
MaxParts == 2

(* ------------------------- program constants --------------------------- *)
MAX_RETRIES == 3
RETRY_DELAY == 5

(* ------------------------------ values --------------------------------- *)
None == 0
NoName == "None"
Accounts == 1..NumAccounts
Handles == 1..MaxMsgs
Filenames == {"f"}
Payloads == {1, 2}
Empty == -1
Senders == {"known", "stranger"}

\* senders_dict of each account: the keys of the allow-list
senders_dict == [a \in Accounts |-> {"known"}]

\* os.path.join(base_dir, today): one dated directory per account
DatedDir(a) == a

\* a MIME part as the code reads it: main content type, Content-Disposition
\* present or not, filename (or NoName), decoded payload
\* (the payload is told apart only on the parts the code can write)
Parts ==
    {p \in [maintype : {"multipart", "application"}, disp : BOOLEAN,
            filename : Filenames \cup {NoName}, payload : Payloads] :
        \/ p.payload = 1
        \/ p.maintype # "multipart" /\ p.disp /\ p.filename # NoName}

\* a parsed message: its From header, its own headers as a part, and the
\* number of sub-parts msg.walk() yields after the message itself
\* (a flat message has a disposition header with a filename or neither; a
\* multipart message has sub-parts and no disposition header of its own)
Messages ==
    {m \in [sender : Senders, maintype : {"multipart", "application"},
            disp : BOOLEAN, filename : Filenames \cup {NoName},
            nparts : 0..MaxParts] :
        /\ m.disp <=> m.filename # NoName
        /\ m.maintype = "multipart" => ~m.disp
        /\ m.maintype # "multipart" => m.nparts = 0}

NoMsg == [sender |-> "none", maintype |-> "none", disp |-> FALSE,
          filename |-> NoName, nparts |-> 0]
NoPart == [maintype |-> "none", disp |-> FALSE, filename |-> NoName, payload |-> 0]

\* record of what process_email did with the handle it ran on last: how the
\* fetch ended, the From header, and the log of the save attempts ("saved",
\* "failed") and of the store ("store") in the order they were made
NoCur == [handle |-> 0, status |-> "none", sender |-> "none", log |-> << >>]

\* what a search can return: the handles of the unread messages, each once,
\* in the order the server chooses
Range(s) == {s[i] : i \in 1..Len(s)}
SearchResults ==
    {s \in UNION {[1..n -> Handles] : n \in 0..MaxMsgs} :
        Range(s) = 1..Len(s)}

VARIABLES
    acct,             \* index of the account main() is running
    pc,               \* position of the control flow
    mail,             \* self.mail: a connection id or None
    attachments_dir,  \* self.attachments_dir: a directory or None
    retries,          \* the local `retries` of connect / download_attachments
    email_ids,        \* the handles of the last successful search
    idx,              \* position of the per-message loop in email_ids
    msg,              \* the message process_email parsed
    walkPos,          \* how many parts msg.walk() has yielded
    part,             \* the part msg.walk() yielded last
    called,           \* save_attachments called save_attachment for `part`
    dirExists,        \* filesystem: the account's dated directory exists
    files,            \* filesystem: files[name] is the content of that file in
                      \* the account's dated directory, None if absent
    seen,             \* server: the handles of the account's inbox flagged \Seen
    run,              \* record of the calls the current account run has issued
    loop,             \* attempts and sleeps of the retry loop in progress
    cur,              \* what process_email did with the handle it ran on last
    fetched,          \* fetched[h]: fetches the current run issued for handle h
    stored,           \* stored[h]: \Seen stores the current run issued for h
    processed,        \* handles process_email has returned from, in order
    completed,        \* accounts whose run reached the end of the loop body
    crashSite         \* where an exception left main(), "none" otherwise

vars == <<acct, pc, mail, attachments_dir, retries, email_ids, idx, msg, walkPos,
          part, called, dirExists, files, seen, run, loop, cur, fetched, stored,
          processed, completed, crashSite>>

mainVars == <<acct, completed, crashSite>>
iterVars == <<email_ids, idx, processed>>
msgVars == <<msg, walkPos, part, called>>
envVars == <<dirExists, files, seen>>
countVars == <<cur, fetched, stored>>

\* what the account run has done so far: how connect, the directory creation
\* and download_attachments ended, the connections opened, the logouts and
\* selects issued, self.mail when download_attachments was entered
NoRun ==
    [connResult |-> "none", opened |-> {}, logoutIssued |-> {}, logoutCalls |-> 0,
     dirOutcome |-> "none", dlResult |-> "none", selects |-> 0,
     mailAtDownload |-> None]

\* the retry loop in progress (or the one that ran last): attempts started,
\* attempts that ended in the except branch, and time.sleep(RETRY_DELAY)
\* calls made, since its `retries = 0`
NoLoop == [attempts |-> 0, fails |-> 0, sleeps |-> 0]

Init ==
    /\ acct = 1
    /\ pc = "start"
    /\ mail = None
    /\ attachments_dir = None
    /\ retries = 0
    /\ email_ids = << >>
    /\ idx = 0
    /\ msg = NoMsg
    /\ walkPos = 0
    /\ part = NoPart
    /\ called = FALSE
    /\ dirExists \in BOOLEAN
    /\ files \in IF dirExists
                THEN [Filenames -> {None} \cup Payloads]
                ELSE {[n \in Filenames |-> None]}
    /\ seen = {}
    /\ run = NoRun
    /\ loop = NoLoop
    /\ cur = NoCur
    /\ fetched = [h \in Handles |-> 0]
    /\ stored = [h \in Handles |-> 0]
    /\ processed = << >>
    /\ completed = {}
    /\ crashSite = "none"

(* ------------------------------ main ----------------------------------- *)
\* main: `for account in email_accounts: downloader = EmailDownloader(...)`;
\* the inbox and the dated directory of the account come into view
StartAccount ==
    /\ pc = "start"
    /\ acct \in Accounts
    /\ pc' = "connect"
    /\ mail' = None
    /\ attachments_dir' = None
    /\ retries' = 0
    /\ email_ids' = << >>
    /\ idx' = 0
    /\ processed' = << >>
    /\ msg' = NoMsg
    /\ walkPos' = 0
    /\ part' = NoPart
    /\ called' = FALSE
    /\ dirExists' \in BOOLEAN
    /\ files' \in IF dirExists'
                 THEN [Filenames -> {None} \cup Payloads]
                 ELSE {[n \in Filenames |-> None]}
    /\ seen' = {}
    /\ run' = NoRun
    /\ loop' = NoLoop
    /\ cur' = NoCur
    /\ fetched' = [h \in Handles |-> 0]
    /\ stored' = [h \in Handles |-> 0]
    /\ UNCHANGED mainVars

\* an exception nobody catches leaves main(): the loop over the accounts ends
Crash(site) ==
    /\ pc' = "crashed"
    /\ crashSite' = site
    /\ UNCHANGED <<acct, completed>>

(* ----------------------------- connect --------------------------------- *)
\* faulty variant: the loop test lets a fourth attempt through
ConnectLoopCond_OffByOne(r) == r <= MAX_RETRIES

\* faulty variant: the loop has no bound
ConnectLoopCond_Forever(r) == TRUE

\* `while retries < MAX_RETRIES`
ConnectLoopCond(r) == r < MAX_RETRIES

\* `if retries < MAX_RETRIES: time.sleep(RETRY_DELAY)`
ConnectShouldSleep(r) == r < MAX_RETRIES

\* the connection a call of IMAP4_SSL() opens
NewConn == Cardinality(run.opened) + 1

\* faulty variant: the code after the loop does not reset self.mail
ConnectFailed_KeepsMail(m, opens) ==
    LET r == retries + 1
        again == ConnectLoopCond(r)
    IN  /\ retries' = r
        /\ loop' = [attempts |-> loop.attempts + 1,
                    fails |-> loop.fails + 1,
                    sleeps |-> IF ConnectShouldSleep(r) THEN loop.sleeps + 1
                               ELSE loop.sleeps]
        /\ run' = [run EXCEPT !.opened = @ \cup opens,
                              !.connResult = IF again THEN @ ELSE "failed"]
        /\ mail' = m
        /\ pc' = IF again THEN "connect" ELSE "mkdir"

\* the except branch of connect, then the loop test and the code after the
\* loop; m is self.mail as the failed attempt left it, opens the connections
\* the attempt opened
ConnectFailed(m, opens) ==
    LET r == retries + 1
        again == ConnectLoopCond(r)
    IN  /\ retries' = r
        /\ loop' = [attempts |-> loop.attempts + 1,
                    fails |-> loop.fails + 1,
                    sleeps |-> IF ConnectShouldSleep(r) THEN loop.sleeps + 1
                               ELSE loop.sleeps]
        /\ run' = [run EXCEPT !.opened = @ \cup opens,
                              !.connResult = IF again THEN @ ELSE "failed"]
        /\ mail' = IF again THEN m ELSE None
        /\ pc' = IF again THEN "connect" ELSE "mkdir"

\* IMAP4_SSL() and login() both return
ConnectOK ==
    /\ pc = "connect"
    /\ ConnectLoopCond(retries)
    /\ mail' = NewConn
    /\ loop' = [loop EXCEPT !.attempts = @ + 1]
    /\ run' = [run EXCEPT !.opened = @ \cup {NewConn}, !.connResult = "ok"]
    /\ pc' = "mkdir"
    /\ UNCHANGED <<attachments_dir, retries>>
    /\ UNCHANGED <<mainVars, iterVars, msgVars, envVars, countVars>>

\* IMAP4_SSL() raises imaplib.IMAP4.error: self.mail is not assigned
ConnectCtorError ==
    /\ pc = "connect"
    /\ ConnectLoopCond(retries)
    /\ ConnectFailed(mail, {})
    /\ UNCHANGED attachments_dir
    /\ UNCHANGED <<mainVars, iterVars, msgVars, envVars, countVars>>

\* IMAP4_SSL() returns, login() raises imaplib.IMAP4.error
ConnectLoginError ==
    /\ pc = "connect"
    /\ ConnectLoopCond(retries)
    /\ ConnectFailed(NewConn, {NewConn})
    /\ UNCHANGED attachments_dir
    /\ UNCHANGED <<mainVars, iterVars, msgVars, envVars, countVars>>

\* IMAP4_SSL() or login() raises an exception that is not imaplib.IMAP4.error
\* (OSError from the socket): `except imaplib.IMAP4.error` does not catch it
ConnectOtherError ==
    /\ pc = "connect"
    /\ ConnectLoopCond(retries)
    /\ \E atLogin \in BOOLEAN :
          /\ mail' = IF atLogin THEN NewConn ELSE mail
          /\ run' = [run EXCEPT !.opened = IF atLogin THEN @ \cup {NewConn} ELSE @,
                                !.connResult = "raised"]
    /\ loop' = [loop EXCEPT !.attempts = @ + 1]
    /\ Crash("connect")
    /\ UNCHANGED <<attachments_dir, retries>>
    /\ UNCHANGED <<iterVars, msgVars, envVars, countVars>>

(* -------------------- create_attachments_directory --------------------- *)
\* faulty variant: main goes on to download_attachments without a directory
DirUsable_Always(d) == TRUE

\* main: `if downloader.attachments_dir:`
DirUsable(d) == d # None

\* main after create_attachments_directory returned
AfterMkdir(d) == IF DirUsable(d) THEN "download" ELSE "logout"

\* os.path.isdir is true: the directory is reused
CreateDirExisting ==
    /\ pc = "mkdir"
    /\ dirExists
    /\ attachments_dir' = DatedDir(acct)
    /\ run' = [run EXCEPT !.dirOutcome = "existing"]
    /\ pc' = AfterMkdir(attachments_dir')
    /\ UNCHANGED <<mail, retries, loop>>
    /\ UNCHANGED <<mainVars, iterVars, msgVars, envVars, countVars>>

\* os.makedirs returns
CreateDirMade ==
    /\ pc = "mkdir"
    /\ ~dirExists
    /\ attachments_dir' = DatedDir(acct)
    /\ dirExists' = TRUE
    /\ run' = [run EXCEPT !.dirOutcome = "created"]
    /\ pc' = AfterMkdir(attachments_dir')
    /\ UNCHANGED <<mail, retries, loop, files, seen>>
    /\ UNCHANGED <<mainVars, iterVars, msgVars, countVars>>

\* os.makedirs raises: `except Exception` sets attachments_dir to None
CreateDirFailed ==
    /\ pc = "mkdir"
    /\ ~dirExists
    /\ attachments_dir' = None
    /\ run' = [run EXCEPT !.dirOutcome = "failed"]
    /\ pc' = AfterMkdir(attachments_dir')
    /\ UNCHANGED <<mail, retries, loop>>
    /\ UNCHANGED <<mainVars, iterVars, msgVars, envVars, countVars>>

(* ------------------------ download_attachments ------------------------- *)
\* faulty variant: the loop test lets a fourth attempt through
DownloadLoopCond_OffByOne(r) == r <= MAX_RETRIES

\* `while retries < MAX_RETRIES`
DownloadLoopCond(r) == r < MAX_RETRIES

\* `if retries < MAX_RETRIES: time.sleep(RETRY_DELAY)`
DownloadShouldSleep(r) == r < MAX_RETRIES

\* `if self.mail is None: ... return`
DownloadNoMail ==
    /\ pc = "download"
    /\ mail = None
    /\ pc' = "logout"
    /\ UNCHANGED <<mail, attachments_dir, retries, run, loop>>
    /\ UNCHANGED <<mainVars, iterVars, msgVars, envVars, countVars>>

\* `retries = 0`
DownloadBegin ==
    /\ pc = "download"
    /\ mail # None
    /\ retries' = 0
    /\ loop' = NoLoop
    /\ run' = [run EXCEPT !.mailAtDownload = mail]
    /\ pc' = "search"
    /\ UNCHANGED <<mail, attachments_dir>>
    /\ UNCHANGED <<mainVars, iterVars, msgVars, envVars, countVars>>

\* select('inbox') and search(None, 'UNSEEN') return the unread handles; the
\* for loop starts (with no handle download_attachments returns at once)
SearchOK ==
    /\ pc = "search"
    /\ DownloadLoopCond(retries)
    /\ \E ids \in SearchResults :
          /\ Range(ids) \cap seen = {}
          /\ email_ids' = ids
          /\ idx' = 1
          /\ pc' = IF Len(ids) = 0 THEN "logout" ELSE "fetch"
          /\ run' = [run EXCEPT !.selects = @ + 1,
                                !.dlResult = IF Len(ids) = 0 THEN "ok" ELSE @]
    /\ loop' = [loop EXCEPT !.attempts = @ + 1]
    /\ UNCHANGED <<mail, attachments_dir, retries, processed>>
    /\ UNCHANGED <<mainVars, msgVars, envVars, countVars>>

\* select or search raises imaplib.IMAP4.error / imaplib.IMAP4.abort
SearchError ==
    /\ pc = "search"
    /\ DownloadLoopCond(retries)
    /\ LET r == retries + 1
           again == DownloadLoopCond(r)
       IN  /\ retries' = r
           /\ loop' = [attempts |-> loop.attempts + 1,
                       fails |-> loop.fails + 1,
                       sleeps |-> IF DownloadShouldSleep(r) THEN loop.sleeps + 1
                                  ELSE loop.sleeps]
           /\ run' = [run EXCEPT !.selects = @ + 1,
                                 !.dlResult = IF again THEN @ ELSE "failed"]
           /\ pc' = IF again THEN "search" ELSE "logout"
    /\ UNCHANGED <<mail, attachments_dir>>
    /\ UNCHANGED <<mainVars, iterVars, msgVars, envVars, countVars>>

\* select or search raises an exception of another class (OSError from the
\* socket): the except clause does not catch it, and neither does main
SearchOtherError ==
    /\ pc = "search"
    /\ DownloadLoopCond(retries)
    /\ run' = [run EXCEPT !.selects = @ + 1, !.dlResult = "raised"]
    /\ loop' = [loop EXCEPT !.attempts = @ + 1]
    /\ Crash("download")
    /\ UNCHANGED <<mail, attachments_dir, retries>>
    /\ UNCHANGED <<iterVars, msgVars, envVars, countVars>>

(* ---------------------------- process_email ---------------------------- *)
\* faulty variant: the result of the fetch is not looked at
FetchOK_Unchecked(result) == TRUE

\* `if result != 'OK': ... return`
FetchOK(result) == result = "OK"

\* faulty variant: every sender passes the allow-list test
SenderAllowed_Any(sender, a) == TRUE

\* `if sender_email in self.senders_dict`
SenderAllowed(sender, a) == sender \in senders_dict[a]

\* faulty variant: save_attachments walks every message
is_multipart_Always(m) == TRUE

\* save_attachments: `if msg.is_multipart()`
is_multipart(m) == m.maintype = "multipart"

\* faulty variant: the loop skips the handle after the one just processed
NextIdx_Skip(i) == i + 2

\* faulty variant: the loop takes the same handle again
NextIdx_Stay(i) == i

\* `for email_id in email_ids`: the position after the handle just processed
NextIdx(i) == i + 1

\* email_id, the argument of process_email
Handle == email_ids[idx]

\* process_email returns (normally, or through its `except Exception`, which
\* logs and returns too): its locals are gone
ReturnFromProcess ==
    /\ pc' = "return"
    /\ msg' = NoMsg
    /\ walkPos' = 0
    /\ part' = NoPart
    /\ called' = FALSE

\* `for email_id in email_ids`: the loop takes the next handle; after the last
\* one download_attachments returns
ForNext ==
    /\ pc = "return"
    /\ LET i == NextIdx(idx)
           more == i <= Len(email_ids)
       IN  /\ processed' = Append(processed, Handle)
           /\ idx' = i
           /\ pc' = IF more THEN "fetch" ELSE "logout"
           /\ run' = [run EXCEPT !.dlResult = IF more THEN @ ELSE "ok"]
    /\ cur' = NoCur
    /\ UNCHANGED <<mail, attachments_dir, retries, email_ids, loop, fetched, stored>>
    /\ UNCHANGED <<mainVars, msgVars, envVars>>

\* `self.mail.fetch(email_id, '(RFC822)')` is issued for the current handle
Fetched(status, sender) ==
    /\ fetched' = [fetched EXCEPT ![Handle] = @ + 1]
    /\ cur' = [handle |-> Handle, status |-> status, sender |-> sender,
               log |-> << >>]

\* the lines of process_email after fetch returned `result` and the parser
\* produced m: the result test, the sender test, the entry of save_attachments
AfterFetch(result, m) ==
    IF FetchOK(result) /\ SenderAllowed(m.sender, acct)
    THEN /\ msg' = m
         /\ walkPos' = 0
         /\ part' = NoPart
         /\ called' = FALSE
         /\ pc' = IF is_multipart(m) THEN "walk" ELSE "store"
    ELSE ReturnFromProcess

\* fetch returns a result that is not 'OK'
FetchNotOK ==
    /\ pc = "fetch"
    /\ Fetched("notok", "none")
    /\ \E m \in Messages : AfterFetch("NO", m)
    /\ UNCHANGED <<mail, attachments_dir, retries, run, loop, stored>>
    /\ UNCHANGED <<mainVars, iterVars, envVars>>

\* fetch raises (any exception class): `except Exception` logs it
FetchRaised ==
    /\ pc = "fetch"
    /\ Fetched("fetch_raised", "none")
    /\ ReturnFromProcess
    /\ UNCHANGED <<mail, attachments_dir, retries, run, loop, stored>>
    /\ UNCHANGED <<mainVars, iterVars, envVars>>

\* fetch returns 'OK', msg_data[0][1] or email.message_from_bytes raises
ParseRaised ==
    /\ pc = "fetch"
    /\ Fetched("parse_raised", "none")
    /\ ReturnFromProcess
    /\ UNCHANGED <<mail, attachments_dir, retries, run, loop, stored>>
    /\ UNCHANGED <<mainVars, iterVars, envVars>>

\* fetch returns 'OK' and the bytes parse into a message
FetchParsed ==
    /\ pc = "fetch"
    /\ \E m \in Messages :
          /\ Fetched("parsed", m.sender)
          /\ AfterFetch("OK", m)
    /\ UNCHANGED <<mail, attachments_dir, retries, run, loop, stored>>
    /\ UNCHANGED <<mainVars, iterVars, envVars>>

(* -------------------- save_attachments / save_attachment --------------- *)
\* faulty variant: a part counts as an attachment only if it names a file
is_attachment_NeedsFilename(p) ==
    p.maintype # "multipart" /\ p.disp /\ p.filename # NoName

\* is_attachment
is_attachment(p) == p.maintype # "multipart" /\ p.disp

\* save_attachment: `if filename:`
HasFilename(p) == p.filename # NoName

\* faulty variant: save_attachment has no try, a failed write reaches the
\* except of process_email
save_attachment_next_Propagates(outcome) ==
    IF outcome = "failed" THEN "except" ELSE "walk"

\* where control goes when the write of save_attachment ended with `outcome`:
\* its `except Exception` keeps a failure inside, so the walk goes on
save_attachment_next(outcome) == "walk"

\* the parts msg.walk() can yield at position k: the message itself first,
\* then its sub-parts in document order
WalkedParts(k) ==
    IF k = 0
    THEN {[maintype |-> msg.maintype, disp |-> msg.disp,
           filename |-> msg.filename, payload |-> 1]}
    ELSE Parts

\* the for loop of save_attachments after part p was handled: the next part,
\* or back in process_email at the store
WalkOn(p) ==
    /\ part' = p
    /\ called' = is_attachment(p)
    /\ walkPos' = walkPos + 1
    /\ pc' = IF walkPos + 1 < 1 + msg.nparts THEN "walk" ELSE "store"
    /\ UNCHANGED msg

\* the write of part p ended with `outcome`
AfterWrite(outcome, p) ==
    IF save_attachment_next(outcome) = "walk"
    THEN WalkOn(p)
    ELSE ReturnFromProcess

\* the part is no attachment, or it has no filename: nothing is written
WalkSkip ==
    /\ pc = "walk"
    /\ \E p \in WalkedParts(walkPos) :
          /\ ~(is_attachment(p) /\ HasFilename(p))
          /\ WalkOn(p)
    /\ UNCHANGED <<mail, attachments_dir, retries, run, loop>>
    /\ UNCHANGED <<mainVars, iterVars, envVars, countVars>>

\* faulty variant: a file that exists already is left as it is
open_wb_write_KeepsExisting(old, payload) ==
    IF old = None THEN payload ELSE old

\* `with open(filepath, 'wb') as f: f.write(payload)` when both succeed: the
\* content of the file afterwards, `old` being its content before (None if
\* absent); mode 'wb' creates the file or truncates it
open_wb_write(old, payload) == payload

\* open and write succeed: the file is created or replaced.  With no
\* directory os.path.join raises TypeError outside the try of save_attachment,
\* and the except of process_email ends the message.
WalkWriteOK ==
    /\ pc = "walk"
    /\ \E p \in WalkedParts(walkPos) :
          /\ is_attachment(p) /\ HasFilename(p)
          /\ IF attachments_dir = None
             THEN /\ ReturnFromProcess
                  /\ UNCHANGED <<files, cur>>
             ELSE /\ files' = [files EXCEPT ![p.filename] = open_wb_write(@, p.payload)]
                  /\ cur' = [cur EXCEPT !.log = Append(@, "saved")]
                  /\ AfterWrite("ok", p)
    /\ UNCHANGED <<mail, attachments_dir, retries, run, loop, fetched, stored>>
    /\ UNCHANGED <<dirExists, seen>>
    /\ UNCHANGED <<mainVars, iterVars>>

\* open raises (the file is untouched) or write raises after open truncated
\* the file
WalkWriteFailed ==
    /\ pc = "walk"
    /\ attachments_dir # None
    /\ \E p \in WalkedParts(walkPos), atOpen \in BOOLEAN :
          /\ is_attachment(p) /\ HasFilename(p)
          /\ files' = IF atOpen THEN files ELSE [files EXCEPT ![p.filename] = Empty]
          /\ cur' = [cur EXCEPT !.log = Append(@, "failed")]
          /\ AfterWrite("failed", p)
    /\ UNCHANGED <<mail, attachments_dir, retries, run, loop, fetched, stored>>
    /\ UNCHANGED <<dirExists, seen>>
    /\ UNCHANGED <<mainVars, iterVars>>

\* `self.mail.store(email_id, '+FLAGS', '\\Seen')` returns
StoreOK ==
    /\ pc = "store"
    /\ seen' = seen \cup {Handle}
    /\ stored' = [stored EXCEPT ![Handle] = @ + 1]
    /\ cur' = [cur EXCEPT !.log = Append(@, "store")]
    /\ ReturnFromProcess
    /\ UNCHANGED <<mail, attachments_dir, retries, run, loop, fetched>>
    /\ UNCHANGED <<dirExists, files>>
    /\ UNCHANGED <<mainVars, iterVars>>

\* the store raises: `except Exception` logs it, the flag is not set
StoreRaised ==
    /\ pc = "store"
    /\ stored' = [stored EXCEPT ![Handle] = @ + 1]
    /\ cur' = [cur EXCEPT !.log = Append(@, "store")]
    /\ ReturnFromProcess
    /\ UNCHANGED <<mail, attachments_dir, retries, run, loop, fetched>>
    /\ UNCHANGED <<mainVars, iterVars, envVars>>

(* ------------------------------ logout --------------------------------- *)
\* `if self.mail:`
HasMail(m) == m # None

\* main: the loop body ended, the for loop takes the next account
EndRun ==
    /\ completed' = completed \cup {acct}
    /\ acct' = acct + 1
    /\ pc' = IF acct + 1 \in Accounts THEN "start" ELSE "done"
    /\ UNCHANGED crashSite

\* self.mail.logout() returns
LogoutOK ==
    /\ pc = "logout"
    /\ HasMail(mail)
    /\ run' = [run EXCEPT !.logoutIssued = @ \cup {mail}, !.logoutCalls = @ + 1]
    /\ EndRun
    /\ UNCHANGED <<mail, attachments_dir, retries, loop>>
    /\ UNCHANGED <<iterVars, msgVars, envVars, countVars>>

\* self.mail.logout() raises: logout has no try, and neither has main
LogoutRaised ==
    /\ pc = "logout"
    /\ HasMail(mail)
    /\ run' = [run EXCEPT !.logoutIssued = @ \cup {mail}, !.logoutCalls = @ + 1]
    /\ Crash("logout")
    /\ UNCHANGED <<mail, attachments_dir, retries, loop>>
    /\ UNCHANGED <<iterVars, msgVars, envVars, countVars>>

\* no connection is held: logout does nothing
LogoutNoop ==
    /\ pc = "logout"
    /\ ~HasMail(mail)
    /\ EndRun
    /\ UNCHANGED <<mail, attachments_dir, retries, run, loop>>
    /\ UNCHANGED <<iterVars, msgVars, envVars, countVars>>

(* --------------------------- specification ----------------------------- *)
Next ==
    \/ StartAccount
    \/ ConnectOK
    \/ ConnectCtorError
    \/ ConnectLoginError
    \/ ConnectOtherError
    \/ CreateDirExisting
    \/ CreateDirMade
    \/ CreateDirFailed
    \/ DownloadNoMail
    \/ DownloadBegin
    \/ SearchOK
    \/ SearchError
    \/ SearchOtherError
    \/ ForNext
    \/ FetchNotOK
    \/ FetchRaised
    \/ ParseRaised
    \/ FetchParsed
    \/ WalkSkip
    \/ WalkWriteOK
    \/ WalkWriteFailed
    \/ StoreOK
    \/ StoreRaised
    \/ LogoutOK
    \/ LogoutRaised
    \/ LogoutNoop

Spec == Init /\ [][Next]_vars

(* ----------------- logout called again by a client --------------------- *)
\* logout() is called once more on a downloader whose logout() has returned
\* (main never does this; a client of the class may).  `if self.mail:` is
\* tested as before, and logout never resets self.mail, so the protocol
\* logout is issued again; whether that call returns or raises, it was issued.
LogoutAgain ==
    /\ pc \in {"start", "done"}
    /\ acct > 1
    /\ run.logoutCalls < 2
    /\ IF HasMail(mail)
       THEN run' = [run EXCEPT !.logoutIssued = @ \cup {mail},
                               !.logoutCalls = @ + 1]
       ELSE UNCHANGED run
    /\ UNCHANGED <<pc, mail, attachments_dir, retries, loop>>
    /\ UNCHANGED <<mainVars, iterVars, msgVars, envVars, countVars>>

NextLogoutTwice == Next \/ LogoutAgain

\* main, with a client that may call logout() a second time
SpecLogoutTwice == Init /\ [][NextLogoutTwice]_vars

TypeOK ==
    /\ acct \in 1..(NumAccounts + 1)
    /\ pc \in {"start", "connect", "mkdir", "download", "search", "fetch", "walk",
               "store", "return", "logout", "crashed", "done"}
    /\ mail \in {None} \cup 1..MAX_RETRIES
    /\ attachments_dir \in {None} \cup {DatedDir(a) : a \in Accounts}
    /\ retries \in 0..MAX_RETRIES
    /\ email_ids \in SearchResults
    /\ msg \in Messages \cup {NoMsg}
    /\ part \in Parts \cup {NoPart} \cup
                {[maintype |-> "multipart", disp |-> FALSE, filename |-> NoName,
                  payload |-> 1]}
    /\ called \in BOOLEAN
    /\ files \in [Filenames -> {None, Empty} \cup Payloads]
    /\ seen \subseteq Handles
    /\ completed \subseteq Accounts

(* ------------------------------ claims --------------------------------- *)
\* the run of an account is over: main took the next account, left the loop,
\* or was left by an exception
RunEnded ==
    \/ pc \in {"done", "crashed"}
    \/ pc = "start" /\ acct > 1

NothingFetched == \A h \in Handles : fetched[h] = 0
NothingStored == (\A h \in Handles : stored[h] = 0) /\ seen = {}

\* connect has returned and nothing else has run yet
ConnectReturned == pc = "mkdir"

\* C1: when connect+login fails with a protocol error N times and then
\* succeeds, connect ends with a connection handle iff N < 3, after exactly
\* N+1 attempts and N delays; when every attempt fails, exactly 3 attempts are
\* made, connect ends failed with no handle, and there is never a 4th attempt.
C1_ConnectRetry ==
    /\ pc \in {"connect", "mkdir"} => loop.attempts <= 3
    /\ ConnectReturned =>
          /\ run.connResult \in {"ok", "failed"}
          /\ (mail # None) <=> (loop.fails < 3)
          /\ run.connResult = "ok" =>
                /\ mail # None
                /\ loop.attempts = loop.fails + 1
                /\ loop.sleeps = loop.fails
          /\ run.connResult = "failed" =>
                /\ mail = None
                /\ loop.fails = 3
                /\ loop.attempts = 3

\* connect succeeded at the third attempt, after two failures and two delays
C1_Witness ==
    /\ ConnectReturned
    /\ run.connResult = "ok"
    /\ loop.fails = 2
    /\ loop.sleeps = 2
    /\ mail # None

\* C2: in an account run whose connect failed, no output directory is
\* created and no message is fetched or marked read.
C2_NoDirectoryAfterConnectFailure ==
    run.connResult = "failed" =>
        /\ run.dirOutcome # "created"
        /\ NothingFetched
        /\ NothingStored

\* C3: every account run that obtained a connection handle has issued logout
\* on that handle when the run is over, whatever way the run ended.
C3_LogoutOnEveryExit ==
    (RunEnded /\ run.connResult = "ok") => mail \in run.logoutIssued

\* C4: a failure or exception in the run of one account does not prevent the
\* runs of the later accounts: main never ends with an account left unrun.
C4_AccountIsolation ==
    pc = "crashed" => \A j \in Accounts : j <= acct

\* C5: for a message whose sender is not a key of the allow-list,
\* process_email makes no save attempt and issues no store: no file is
\* written and the message's read flag is unchanged.
C5_StrangerUntouched ==
    (cur.status = "parsed" /\ cur.sender \notin senders_dict[acct]) =>
        /\ pc = "return"
        /\ cur.log = << >>
        /\ stored[cur.handle] = 0
        /\ cur.handle \notin seen

\* a stranger's message was processed after an earlier message wrote a file
C5_Witness ==
    /\ pc = "return"
    /\ cur.status = "parsed"
    /\ cur.sender = "stranger"
    /\ files["f"] = 2
    /\ seen # {}

\* C6: for a message from an allowed sender whose fetch and parse succeed,
\* the store is issued once, after all the save attempts of the message, and
\* however many of them failed.
C6_MarkAfterSaves ==
    (pc = "return" /\ cur.status = "parsed" /\ cur.sender \in senders_dict[acct]) =>
        /\ Len(cur.log) >= 1
        /\ cur.log[Len(cur.log)] = "store"
        /\ \A i \in 1..(Len(cur.log) - 1) : cur.log[i] # "store"
        /\ stored[cur.handle] = 1

\* both save attempts of a message failed and the store was still issued
C6_Witness ==
    /\ pc = "return"
    /\ cur.log = <<"failed", "failed", "store">>
    /\ stored[cur.handle] = 1

\* C7: in an account run where connect succeeded and the directory creation
\* failed, no select/search is issued, no message is fetched or marked read,
\* and logout is issued on the open connection before the run ends.
C7_DirectoryFailure ==
    (run.connResult = "ok" /\ run.dirOutcome = "failed") =>
        /\ run.selects = 0
        /\ NothingFetched
        /\ NothingStored
        /\ pc \in {"logout", "start", "done", "crashed"}
        /\ RunEnded => mail \in run.logoutIssued

\* the run ended after a directory failure, logged out
C7_Witness ==
    /\ pc \in {"start", "done"}
    /\ run.connResult = "ok"
    /\ run.dirOutcome = "failed"
    /\ mail \in run.logoutIssued

FetchFailures == {"notok", "fetch_raised", "parse_raised"}

\* the state of a message whose fetch or parse failed: process_email has
\* returned, nothing was saved or stored, the handle was fetched once
C8_FetchFailureState ==
    cur.status \in FetchFailures =>
        /\ pc = "return"
        /\ cur.log = << >>
        /\ stored[cur.handle] = 0
        /\ cur.handle \notin seen
        /\ fetched[cur.handle] = 1

\* the step after such a message: the for loop takes the next handle
C8_FetchFailureStep ==
    (cur.status \in FetchFailures) =>
        /\ idx' = idx + 1
        /\ processed' = Append(processed, cur.handle)
        /\ pc' = IF idx < Len(email_ids) THEN "fetch" ELSE "logout"
        /\ fetched' = fetched /\ stored' = stored /\ seen' = seen /\ files' = files

\* C8: when the fetch of a message returns a non-OK result or raises, or the
\* parse raises, the message gets no save attempt and no store (it stays
\* unread), it was fetched once only, and the loop goes on with the next
\* handle.
C8_FetchFailureSkipped == []C8_FetchFailureState /\ [][C8_FetchFailureStep]_vars

\* the fetch of the first of two handles failed
C8_Witness ==
    /\ pc = "return"
    /\ cur.status \in FetchFailures
    /\ idx = 1
    /\ Len(email_ids) = 2

\* C9: after a successful search every handle the search returned is passed
\* to process_email, once, one at a time and in the order returned, whatever
\* happens while the others are processed; nothing propagates out of
\* process_email: download_attachments neither fails nor raises once a
\* message has been fetched.
C9_EveryHandleInOrder ==
    /\ Len(processed) <= Len(email_ids)
    /\ processed = SubSeq(email_ids, 1, Len(processed))
    /\ \A h \in Handles : fetched[h] <= 1
    /\ \A h \in Range(processed) : fetched[h] = 1
    /\ pc \in {"fetch", "walk", "store", "return"} =>
          /\ idx \in 1..Len(email_ids)
          /\ Len(processed) = idx - 1
    /\ run.dlResult = "ok" => processed = email_ids
    /\ run.dlResult \in {"failed", "raised"} => NothingFetched
    /\ (~NothingFetched /\ RunEnded) => run.dlResult = "ok"

\* two handles came back in the order 2, 1: the first failed or was left
\* alone, the second was marked, and both were processed in that order
C9_Witness ==
    /\ run.dlResult = "ok"
    /\ email_ids = <<2, 1>>
    /\ processed = <<2, 1>>
    /\ stored[2] = 0
    /\ seen = {1}

\* download_attachments is past its retry loop's search
Processing == pc \in {"fetch", "walk", "store", "return"}

\* C10: a select+search that fails with a protocol error is retried as a
\* whole with the policy of connect: at most 3 attempts, a delay after a
\* failure only when another attempt follows; when all 3 fail no message is
\* processed, self.mail is what it was, and logout is issued at the end of
\* the run.
C10_SearchRetry ==
    /\ run.selects <= 3
    /\ pc = "search" =>
          /\ retries < 3
          /\ loop.attempts = loop.fails
          /\ loop.sleeps = loop.fails
          /\ run.selects = loop.attempts
    /\ Processing =>
          /\ loop.fails < 3
          /\ loop.attempts = loop.fails + 1
          /\ loop.sleeps = loop.fails
    /\ run.dlResult = "failed" =>
          /\ loop.attempts = 3
          /\ loop.fails = 3
          /\ loop.sleeps = 2
          /\ run.selects = 3
          /\ processed = << >>
          /\ NothingFetched
          /\ NothingStored
          /\ mail # None
          /\ mail = run.mailAtDownload
          /\ RunEnded => mail \in run.logoutIssued

\* the search failed three times and the run ended logged out
C10_Witness ==
    /\ pc \in {"start", "done"}
    /\ run.dlResult = "failed"
    /\ loop.sleeps = 2
    /\ mail \in run.logoutIssued


\* C11: whenever connect has ended in failure, self.mail is None, and for the
\* rest of that account run no select, search, fetch or store is issued.
C11_NoHandleAfterConnectFailure ==
    run.connResult = "failed" =>
        /\ mail = None
        /\ run.mailAtDownload = None
        /\ run.selects = 0
        /\ run.dlResult = "none"
        /\ NothingFetched
        /\ NothingStored
        /\ pc \in {"mkdir", "download", "logout", "start", "done"}

\* the run ended after a connect whose failed logins had left a connection
\* in self.mail, with a usable directory
C11_Witness ==
    /\ RunEnded
    /\ run.connResult = "failed"
    /\ run.opened # {}
    /\ run.dirOutcome = "existing"


\* C12: logout never raises: a failure of the protocol logout is contained
\* and the run goes on.
C12_LogoutNeverRaises ==
    crashSite # "logout"


\* C13: is_attachment(P) is true exactly when P's main content type is not
\* multipart and P carries a Content-Disposition header; the payload and the
\* filename of P play no part.  (save_attachments calls save_attachment for
\* the part it walks exactly when is_attachment answered true.)
C13_IsAttachment ==
    part # NoPart =>
        /\ called <=> (part.maintype # "multipart" /\ part.disp = TRUE)
        /\ \A q \in Parts :
              (q.maintype = part.maintype /\ q.disp = part.disp)
                  => (is_attachment(q) <=> called)

\* the walk met a part with a disposition header and no filename: it is an
\* attachment all the same
C13_Witness ==
    /\ part # NoPart
    /\ part.maintype = "application"
    /\ part.disp
    /\ part.filename = NoName
    /\ called


\* C14: a save to a filename that exists already replaces the file without an
\* error: after a successful save the content of the file is the payload of
\* that save, whatever an earlier save of this run, or a run earlier on the
\* same day, had left under the same name.
C14_LaterSaveWins ==
    ( /\ pc \in {"walk", "store"}
      /\ part # NoPart
      /\ part.maintype # "multipart" /\ part.disp /\ part.filename # NoName
      /\ cur.log # << >>
      /\ cur.log[Len(cur.log)] = "saved" )
        => files[part.filename] = part.payload

\* two successful saves under the same filename in one message, the later
\* with payload 2
C14_Witness ==
    /\ pc = "store"
    /\ cur.log = <<"saved", "saved">>
    /\ part.filename = "f"
    /\ part.payload = 2
    /\ files["f"] = 2


\* the save attempts process_email has made for the current message
SaveAttempts == {i \in DOMAIN cur.log : cur.log[i] \in {"saved", "failed"}}

\* C15: within one account run each handle is fetched at most once and
\* marked read at most once, and each walked part gets at most one save
\* attempt, although the per-message loop sits inside the retry loop of
\* select+search: once a select+search succeeded, none is issued again.
C15_OneShot ==
    /\ \A h \in Handles :
          /\ fetched[h] <= 1
          /\ stored[h] <= 1
          /\ stored[h] <= fetched[h]
    /\ pc \in {"walk", "store"} => Cardinality(SaveAttempts) <= walkPos
    /\ Cardinality({i \in DOMAIN cur.log : cur.log[i] = "store"}) <= 1
    /\ ~NothingFetched =>
          /\ loop.attempts = loop.fails + 1
          /\ run.selects = loop.attempts

\* the third select+search succeeded and both handles were processed, one of
\* them marked read, each fetched once
C15_Witness ==
    /\ pc = "logout"
    /\ run.selects = 3
    /\ run.dlResult = "ok"
    /\ Len(processed) = 2
    /\ \A h \in 1..2 : fetched[h] = 1
    /\ stored[1] = 1
    /\ stored[2] = 0


\* main has ended: it returned, or an exception left it
Ended == pc \in {"done", "crashed"}

\* an upper bound on the steps one message can take: the fetch, the walk of
\* the message and its parts, the store, the step of the for loop
PerMessage == MaxParts + 4

\* an upper bound on the steps left in the run of the current account
StepsLeftInRun ==
    LET after == (Len(email_ids) - idx) * PerMessage
        atSearch == MaxMsgs * PerMessage + 1
        atMkdir == MAX_RETRIES + atSearch + 2
    IN  CASE pc = "logout" -> 1
          [] pc = "return" -> 2 + after
          [] pc = "store" -> 3 + after
          [] pc = "walk" -> (1 + msg.nparts - walkPos) + 3 + after
          [] pc = "fetch" -> PerMessage + 1 + after
          [] pc = "search" -> (MAX_RETRIES - retries) + atSearch
          [] pc = "download" -> MAX_RETRIES + atSearch + 1
          [] pc = "mkdir" -> atMkdir
          [] pc = "connect" -> (MAX_RETRIES - retries) + atMkdir
          [] pc = "start" -> MAX_RETRIES + atMkdir + 1
          [] OTHER -> 0

\* an upper bound on the steps of one account run, from "start" to the step
\* that leaves logout
PerAccount == 2 * MAX_RETRIES + MaxMsgs * PerMessage + 6

\* an upper bound on the steps left in main: the current run and the runs of
\* the accounts after it
StepsLeft ==
    IF Ended THEN 0
    ELSE StepsLeftInRun + (NumAccounts - acct) * PerAccount

\* C16: the batch always terminates, whatever the accounts, the inbox and the
\* failures: a connect loop makes at most 3 attempts and an account run
\* issues at most 3 select+search attempts, every step of main lowers a
\* bound on the steps left, and main is never stuck before its end (which
\* is its return or an exception leaving it).
C16_Terminates ==
    /\ [](loop.attempts <= MAX_RETRIES /\ run.selects <= MAX_RETRIES)
    /\ [](StepsLeft >= 0)
    /\ [](~Ended => ENABLED Next)
    /\ [][StepsLeft' < StepsLeft]_vars

\* main returned after an account whose connect took three attempts and whose
\* three select+search attempts all failed
C16_Witness ==
    /\ pc = "done"
    /\ Cardinality(run.opened) = 3
    /\ run.connResult = "ok"
    /\ run.selects = 3
    /\ run.dlResult = "failed"


\* a part save_attachment writes: it is an attachment and names a file
Writable(p) == p.maintype # "multipart" /\ p.disp /\ p.filename # NoName

\* when save_attachments has returned, a flat message was not walked and got
\* no save attempt, a multipart message was walked to its last part
C17_AfterWalk ==
    /\ (pc = "store" /\ msg.maintype # "multipart") =>
          walkPos = 0 /\ part = NoPart /\ cur.log = << >>
    /\ (pc = "store" /\ msg.maintype = "multipart") =>
          walkPos = 1 + msg.nparts
    /\ pc = "walk" => msg.maintype = "multipart" /\ walkPos <= msg.nparts

\* a step of the walk handles exactly the next part: one save attempt if it
\* is an attachment with a filename, no write at all otherwise, and the walk
\* goes on whatever the outcome
C17_WalkStep ==
    pc = "walk" =>
        /\ pc' \in {"walk", "store"}
        /\ walkPos' = walkPos + 1
        /\ part' # NoPart
        /\ IF Writable(part')
           THEN \/ cur'.log = Append(cur.log, "saved")
                \/ cur'.log = Append(cur.log, "failed")
           ELSE cur'.log = cur.log /\ files' = files

\* C17: on a multipart message save_attachments makes a save attempt for
\* every part that is an attachment, in document order, a failed write does
\* not stop the attempts on later parts, and parts without a filename are
\* passed over without a write; on a message that is not multipart no save is
\* attempted, even if the message itself has a disposition and a filename.
C17_SaveEveryAttachment ==
    []C17_AfterWalk /\ [][C17_WalkStep]_vars

\* the walk of a multipart message is over: the write of its first part
\* failed and its second part was saved all the same
C17_Witness ==
    /\ pc = "store"
    /\ msg.maintype = "multipart"
    /\ walkPos = 3
    /\ cur.log = <<"failed", "saved">>


\* C18: logout is idempotent: with no connection held it does nothing, and a
\* second call after a successful logout issues no further protocol logout on
\* the released connection.
C18_LogoutIdempotent ==
    /\ run.logoutCalls <= 1
    /\ run.logoutCalls = 1 => Cardinality(run.logoutIssued) = 1
    /\ run.logoutIssued \subseteq run.opened


\* C19: connect leaks no connection: when an account run has ended (here: by
\* main's loop body reaching its end, no exception involved), every
\* connection opened by an attempt of connect, those whose login failed
\* included, has been logged out.
C19_NoConnectionLeaked ==
    (pc \in {"start", "done"} /\ acct - 1 \in completed) =>
        run.opened \subseteq run.logoutIssued

====
